---- MODULE Spec2Model ----
(***************************************************************************)
(* Model of the QuantPulse browser runtime (src/static/js/quantpulse.js).  *)
(*                                                                         *)
(* Part 1: QuantPulse.websocket, the reconnecting WebSocket manager.       *)
(* The browser runs one task at a time, so every handler (an application   *)
(* call, a socket event, a timer callback) is one atomic action.           *)
(***************************************************************************)
EXTENDS Integers, Sequences, FiniteSets, TLC

\* ------------------------------------------------------------------------
\* Bounds of the model
\* ------------------------------------------------------------------------

\* WebSocket objects created in one behaviour
MaxSockets == 5

\* application calls of connect() plus disconnect() in one behaviour
MaxCalls == 2

\* frames transmitted in one behaviour
MaxSent == 1

\* inbound frames in one behaviour, and the sockets created in a behaviour
\* that receives frames
MaxFrames == 3
MaxFrameSockets == 2

\* calls of QuantPulse.api in one behaviour
MaxRequests == 1

\* milliseconds the clock advances while the cache is used
MaxElapsed == 3

\* milliseconds the timer clock runs while a wrapper is used
MaxClock == 6

\* wrapper invocations between two underlying calls of a debounced function
MaxBurst == 5

\* toasts shown, and explicit hide calls in all
MaxToasts == 1
MaxHides == 2

\* ------------------------------------------------------------------------
\* Values
\* ------------------------------------------------------------------------

\* the object literal's defaults
DefaultMaxReconnectAttempts == 5
DefaultReconnectInterval == 5000

\* <<maxReconnectAttempts, reconnectInterval>>: the defaults, and the fields
\* overwritten by the application before the first connect()
Configs == { <<DefaultMaxReconnectAttempts, DefaultReconnectInterval>>, <<3, 1000>> }

Urls == {"wss://a", "wss://b"}

\* values the application hands to send()
Payloads == {"ping", "sub"}

\* JSON.stringify of the payloads above
Quote(s) == "\"" \o s \o "\""
Stringify(data) == Quote(data)

\* raw inbound frames (event.data): two well-formed, one malformed
Frames == {"{\"t\":1}", "{\"t\":2}", "{oops"}

\* JSON.parse(event.data): the parsed value, or a SyntaxError thrown
JsonParse(raw) ==
    CASE raw = "{\"t\":1}" -> [ok |-> TRUE, value |-> [t |-> 1]]
      [] raw = "{\"t\":2}" -> [ok |-> TRUE, value |-> [t |-> 2]]
      [] OTHER -> [ok |-> FALSE, value |-> [t |-> 0]]

null == 0

\* an optional value: absent, or present with value x
None == << >>
Some(x) == << x >>

\* QuantPulse.config.apiBaseUrl, '/api/v1', character by character
apiBaseUrl == << "/", "a", "p", "i", "/", "v", "1" >>

\* endpoints handed to the api: '/x', 'x' and 'https://o/y'
Endpoints ==
    { << "/", "x" >>,
      << "x" >>,
      << "h", "t", "t", "p", "s", ":", "/", "/", "o", "/", "y" >> }

\* options handed to request(): none, a method, headers of the caller's own
EmptyOptions == << >>
OptionSets ==
    { EmptyOptions,
      [method |-> "PATCH"],
      [headers |-> ("Accept" :> "text/csv")] }

\* what the server answers: status and body text
Responses ==
    { [status |-> 200, body |-> "{\"t\":1}"],
      [status |-> 204, body |-> ""],
      [status |-> 404, body |-> "{\"t\":2}"],
      [status |-> 500, body |-> ""] }

\* fetch() rejected: no response at all
NetworkError == [failed |-> TRUE]

\* Date.now() when the page starts using the cache
StartTime == 1000

\* JavaScript values handed to and returned by the cache
JsNull == [type |-> "null"]
JsNaN == [type |-> "NaN"]
JsString(str) == [type |-> "string", s |-> str]
Values == { JsString("dark"), JsNull, JsNaN }

\* the expiry argument of set: not given, 0, or 2 ms
Ttls == { None, Some(0), Some(2) }

\* cache keys, and the key of an unrelated application in the same store
Keys == { << "a" >>, << "b" >> }
ForeignKey == << "o" >>
ForeignText == [kind |-> "text", text |-> "1"]

\* stored text that is not JSON
CorruptText == [kind |-> "garbage", text |-> "{oops"]
StoredTexts == { ForeignText, CorruptText }

\* what reading a field that an object does not have gives
JsUndefined == [type |-> "undefined"]

\* the wait handed to debounce and the limit handed to throttle, in ms
DebounceWait == 2
ThrottleLimit == 2

\* argument lists and calling contexts of wrapper invocations; a function
\* called without a receiver runs with the global object as this
ArgLists == { "a", "b" }
GlobalThis == "globalThis"
Contexts == { "element", GlobalThis }

\* QuantPulse.config.toastTimeout and the delays of toast.show and toast.hide
ToastTimeout == 3000
ShowDelay == 100
ExitDelay == 300

\* the duration argument of show: not given, 0, or 1000 ms
Durations == { None, Some(0), Some(1000) }

\* handles returned by setTimeout; undefined before the first one
TimerIds == 1 .. 4
NoTimer == 0

\* `qp_${key}`
StoragePrefix == << "q", "p", "_" >>
RawKey(key) == StoragePrefix \o key
RawKeys == { RawKey(key) : key \in Keys } \cup { ForeignKey }

\* what onConnectSeen holds before the hook has ever run
NotCalled == -1

VARIABLES
    connection,             \* this.connection: null or the index of a socket
    reconnectAttempts,      \* this.reconnectAttempts
    maxReconnectAttempts,   \* this.maxReconnectAttempts
    reconnectInterval,      \* this.reconnectInterval
    sockets,                \* every WebSocket created so far, in creation order
    timers,                 \* pending setTimeout callbacks, in due order
    sent,                   \* frames handed to the transport, in order
    onConnectCalls,         \* invocations of the onConnect hook
    onConnectSeen,          \* reconnectAttempts as the last onConnect call saw it
    onDisconnectCalls,      \* invocations of the onDisconnect hook
    onDisconnectSeen,       \* reconnectAttempts as the last onDisconnect call saw it
    connectCalls,           \* application calls of connect()
    disconnectCalls,        \* application calls of disconnect()
    arrived,                \* raw frames of the message events, in dispatch order
    delivered,              \* arguments of the onMessage calls, in call order
    logged,                 \* what the catch block of onmessage logged, per frame
    escaped,                \* exceptions that left the onmessage handler
    csrfToken,              \* content of <meta name="csrf-token">, if the page has one
    requests,               \* the calls of QuantPulse.api with their outcome
    fetches,                \* the fetch(url, config) calls, in order
    now,                    \* Date.now()
    localStorage,           \* window.localStorage: raw key -> stored text, if any
    lastGet,                \* the last storage.get call: its key and what it returned
    written,                \* per key, the last storage.set call not yet removed, cleared or overwritten
    replaced,               \* per key, the storage.set call whose entry the last one replaced
    clock,                  \* the time base of setTimeout, in ms
    debTimeout,             \* debounce: the closure's timeout variable
    debTimers,              \* debounce: the pending setTimeout callbacks
    debCalls,               \* debounce: the calls of func, in order
    debLast,                \* debounce: the most recent wrapper invocation
    debBurst,               \* debounce: wrapper invocations since the last call of func
    inThrottle,             \* throttle: the closure's inThrottle variable
    thrTimers,              \* throttle: due times of the pending reset callbacks
    thrCalls,               \* throttle: the calls of func, in order
    thrInvokedAt,           \* throttle: the times at which the wrapper was invoked
    toasts,                 \* toast: the elements created by show, in order
    toastTimers             \* toast: the pending setTimeout callbacks, in creation order

\* the fields of QuantPulse.websocket with its sockets, timers and hooks
channel == << connection, reconnectAttempts, maxReconnectAttempts, reconnectInterval,
              sockets, timers, sent, onConnectCalls, onConnectSeen, onDisconnectCalls,
              onDisconnectSeen,
              connectCalls, disconnectCalls >>

frameVars == << arrived, delivered, logged, escaped >>

apiVars == << csrfToken, requests, fetches >>

\* what neither the channel nor its frames touch
cacheVars == << now, localStorage, lastGet, written, replaced >>

debVars == << debTimeout, debTimers, debCalls, debLast, debBurst >>

\* what setTimeout drives apart from the channel
thrVars == << inThrottle, thrTimers, thrCalls, thrInvokedAt >>

toastVars == << toasts, toastTimers >>

timed == << clock, debVars, thrVars, toastVars >>

outside == << apiVars, cacheVars, timed >>

\* what no step of the connection life cycle touches
offChannel == << frameVars, outside >>

vars == << channel, offChannel >>

config == << maxReconnectAttempts, reconnectInterval >>
hooks == << onConnectCalls, onConnectSeen, onDisconnectCalls, onDisconnectSeen >>
calls == << connectCalls, disconnectCalls >>

Init ==
    /\ connection = null
    /\ reconnectAttempts = 0
    /\ \E c \in Configs : maxReconnectAttempts = c[1] /\ reconnectInterval = c[2]
    /\ sockets = << >>
    /\ timers = << >>
    /\ sent = << >>
    /\ onConnectCalls = 0
    /\ onConnectSeen = NotCalled
    /\ onDisconnectSeen = NotCalled
    /\ onDisconnectCalls = 0
    /\ connectCalls = 0
    /\ disconnectCalls = 0
    /\ arrived = << >>
    /\ delivered = << >>
    /\ logged = << >>
    /\ escaped = 0
    /\ csrfToken = None
    /\ requests = << >>
    /\ fetches = << >>
    /\ now = StartTime
    /\ localStorage = [raw \in RawKeys |-> IF raw = ForeignKey THEN Some(ForeignText) ELSE None]
    /\ lastGet = None
    /\ written = [key \in Keys |-> None]
    /\ replaced = [key \in Keys |-> None]
    /\ clock = 0
    /\ debTimeout = NoTimer
    /\ debTimers = {}
    /\ debCalls = << >>
    /\ debLast = None
    /\ debBurst = 0
    /\ inThrottle = FALSE
    /\ thrTimers = << >>
    /\ thrCalls = << >>
    /\ thrInvokedAt = {}
    /\ toasts = << >>
    /\ toastTimers = << >>

\* ------------------------------------------------------------------------
\* The WebSocket transport (browser primitive used at lines 503-544)
\* ------------------------------------------------------------------------

ReadyStates == {"CONNECTING", "OPEN", "CLOSING", "CLOSED"}

SocketIds == 1 .. Len(sockets)

\* new WebSocket(url): the socket starts CONNECTING; url is the argument its
\* handlers (the closures of lines 509-532) captured
NewSocket(url) == [readyState |-> "CONNECTING", url |-> url]

\* a socket after its close event: it dispatches no further event, so the
\* url its handlers captured is never read again
Released == "(released)"
ClosedSocket == [readyState |-> "CLOSED", url |-> Released]

\* WebSocket.close(): nothing on a CLOSING or CLOSED socket, otherwise the
\* socket becomes CLOSING and its close event is dispatched by a later task
CloseSocket(s) ==
    IF sockets[s].readyState \in {"CLOSING", "CLOSED"}
    THEN sockets
    ELSE [sockets EXCEPT ![s].readyState = "CLOSING"]

\* the condition of lines 503 and 543
IsOpen == connection # null /\ sockets[connection].readyState = "OPEN"

\* sockets whose events still reach the handlers installed by connect()
Live == { s \in SocketIds : sockets[s].readyState \in {"CONNECTING", "OPEN"} }

\* ------------------------------------------------------------------------
\* QuantPulse.websocket
\* ------------------------------------------------------------------------

\* connect that returns whenever this.connection is set, open or not
ConnectBodyAnyConnection(url) ==
    IF connection # null
    THEN UNCHANGED << connection, sockets >>
    ELSE /\ Len(sockets) < MaxSockets
         /\ sockets' = Append(sockets, NewSocket(url))
         /\ connection' = Len(sockets) + 1

\* connect(url), lines 502-533: return when already open, else replace
\* this.connection by a new socket (the old one is neither closed nor
\* stripped of its handlers)
ConnectBody(url) ==
    IF IsOpen
    THEN UNCHANGED << connection, sockets >>
    ELSE /\ Len(sockets) < MaxSockets
         /\ sockets' = Append(sockets, NewSocket(url))
         /\ connection' = Len(sockets) + 1

\* attemptReconnect with a delay that grows with the attempt number
AttemptReconnectBackoff(url) ==
    IF reconnectAttempts < maxReconnectAttempts
    THEN /\ reconnectAttempts' = reconnectAttempts + 1
         /\ timers' = Append(timers, [url |-> url,
                                      delay |-> reconnectInterval * (reconnectAttempts + 1),
                                      remaining |-> reconnectInterval * (reconnectAttempts + 1)])
    ELSE UNCHANGED << reconnectAttempts, timers >>

\* attemptReconnect with <= in place of < at line 549
AttemptReconnectInclusive(url) ==
    IF reconnectAttempts <= maxReconnectAttempts
    THEN /\ reconnectAttempts' = reconnectAttempts + 1
         /\ timers' = Append(timers, [url |-> url,
                                      delay |-> reconnectInterval,
                                      remaining |-> reconnectInterval])
    ELSE UNCHANGED << reconnectAttempts, timers >>

\* attemptReconnect that starts counting again once the limit is reached
AttemptReconnectStartsOver(url) ==
    IF reconnectAttempts < maxReconnectAttempts
    THEN /\ reconnectAttempts' = reconnectAttempts + 1
         /\ timers' = Append(timers, [url |-> url,
                                      delay |-> reconnectInterval,
                                      remaining |-> reconnectInterval])
    ELSE /\ reconnectAttempts' = 0
         /\ UNCHANGED timers

\* attemptReconnect without the limit of line 549
AttemptReconnectUnbounded(url) ==
    /\ reconnectAttempts' = reconnectAttempts + 1
    /\ timers' = Append(timers, [url |-> url,
                                 delay |-> reconnectInterval,
                                 remaining |-> reconnectInterval])

\* attemptReconnect(url), lines 548-556
AttemptReconnect(url) ==
    IF reconnectAttempts < maxReconnectAttempts
    THEN /\ reconnectAttempts' = reconnectAttempts + 1
         /\ timers' = Append(timers, [url |-> url,
                                      delay |-> reconnectInterval,
                                      remaining |-> reconnectInterval])
    ELSE UNCHANGED << reconnectAttempts, timers >>

\* onopen with lines 511 and 512 swapped: the hook runs before the reset
OnOpenHookFirst ==
    /\ onConnectCalls' = onConnectCalls + 1
    /\ onConnectSeen' = reconnectAttempts
    /\ reconnectAttempts' = 0

\* the onopen handler, lines 509-513: reset, then the hook
OnOpen ==
    /\ reconnectAttempts' = 0
    /\ onConnectCalls' = onConnectCalls + 1
    /\ onConnectSeen' = reconnectAttempts'

\* onclose with lines 526 and 527 swapped: the retry policy runs before the hook
OnClosePolicyFirst(url) ==
    /\ AttemptReconnect(url)
    /\ onDisconnectCalls' = onDisconnectCalls + 1
    /\ onDisconnectSeen' = reconnectAttempts'

\* the onclose handler, lines 524-528: the hook, then the retry policy
OnClose(url) ==
    /\ onDisconnectCalls' = onDisconnectCalls + 1
    /\ onDisconnectSeen' = reconnectAttempts
    /\ AttemptReconnect(url)

\* send without the readyState test of line 543
SendBodyUnguarded(data) ==
    IF connection # null
    THEN /\ Len(sent) < MaxSent
         /\ sent' = Append(sent, Stringify(data))
    ELSE UNCHANGED sent

\* send(data), lines 542-546
SendBody(data) ==
    IF IsOpen
    THEN /\ Len(sent) < MaxSent
         /\ sent' = Append(sent, Stringify(data))
    ELSE UNCHANGED sent

\* disconnect(), lines 535-540
DisconnectBody ==
    IF connection # null
    THEN /\ sockets' = CloseSocket(connection)
         /\ connection' = null
    ELSE UNCHANGED << connection, sockets >>

\* ------------------------------------------------------------------------
\* Actions
\* ------------------------------------------------------------------------

\* a connect(url) that also starts the retry count over
ConnectResetting(url) ==
    /\ connectCalls + disconnectCalls < MaxCalls
    /\ connectCalls' = connectCalls + 1
    /\ ConnectBody(url)
    /\ reconnectAttempts' = 0
    /\ UNCHANGED << config, timers, sent, hooks, disconnectCalls >>
    /\ UNCHANGED offChannel

\* a connect(url) that points every pending retry at the new url
ConnectRetargeting(url) ==
    /\ connectCalls + disconnectCalls < MaxCalls
    /\ connectCalls' = connectCalls + 1
    /\ ConnectBody(url)
    /\ timers' = [i \in 1 .. Len(timers) |-> [timers[i] EXCEPT !.url = url]]
    /\ UNCHANGED << reconnectAttempts, config, sent, hooks, disconnectCalls >>
    /\ UNCHANGED offChannel

\* the application calls connect(url)
Connect(url) ==
    /\ connectCalls + disconnectCalls < MaxCalls
    /\ connectCalls' = connectCalls + 1
    /\ ConnectBody(url)
    /\ UNCHANGED << reconnectAttempts, config, timers, sent, hooks, disconnectCalls >>
    /\ UNCHANGED offChannel

\* the application calls disconnect()
Disconnect ==
    /\ connectCalls + disconnectCalls < MaxCalls
    /\ disconnectCalls' = disconnectCalls + 1
    /\ DisconnectBody
    /\ UNCHANGED << reconnectAttempts, config, timers, sent, hooks, connectCalls >>
    /\ UNCHANGED offChannel

\* the application calls send(data)
Send(data) ==
    /\ SendBody(data)
    /\ UNCHANGED << connection, reconnectAttempts, config, sockets, timers, hooks, calls >>
    /\ UNCHANGED offChannel

\* the transport of socket s is established: open event
TransportOpen(s) ==
    /\ sockets[s].readyState = "CONNECTING"
    /\ sockets' = [sockets EXCEPT ![s].readyState = "OPEN"]
    /\ OnOpen
    /\ UNCHANGED << connection, config, timers, sent, onDisconnectCalls, onDisconnectSeen, calls >>
    /\ UNCHANGED offChannel

\* the transport of socket s fails or is closed by either side: close event
TransportClose(s) ==
    /\ sockets[s].readyState # "CLOSED"
    /\ sockets' = [sockets EXCEPT ![s] = ClosedSocket]
    /\ OnClose(sockets[s].url)
    /\ UNCHANGED << connection, config, sent, onConnectCalls, onConnectSeen, calls >>
    /\ UNCHANGED offChannel

Min(S) == CHOOSE x \in S : \A y \in S : x <= y

\* time passes up to the next moment a pending timer becomes due
Tick ==
    LET waiting == { timers[i].remaining : i \in 1 .. Len(timers) } \ {0} IN
    /\ waiting # {}
    /\ timers' = [i \in 1 .. Len(timers) |->
                    [timers[i] EXCEPT !.remaining =
                        IF @ > Min(waiting) THEN @ - Min(waiting) ELSE 0]]
    /\ UNCHANGED << connection, reconnectAttempts, config, sockets, sent, hooks, calls >>
    /\ UNCHANGED offChannel

\* the callback of lines 551-554 runs: connect(url)
TimerFire ==
    /\ timers # << >>
    /\ Head(timers).remaining = 0
    /\ timers' = Tail(timers)
    /\ ConnectBody(Head(timers).url)
    /\ UNCHANGED << reconnectAttempts, config, sent, hooks, calls >>
    /\ UNCHANGED offChannel

\* what the handler catches: the SyntaxError of JSON.parse, or whatever the
\* application's onMessage throws
SyntaxError == "SyntaxError"
HandlerError == "Error"

\* console.error of line 520, for the frame being dispatched
Log(error) == Append(logged, [frame |-> Len(arrived) + 1, error |-> error])

\* onmessage with the handler call moved out of the try block and run for
\* every frame, parsed or not
OnMessageAlways(raw, throws) ==
    /\ delivered' = Append(delivered, JsonParse(raw).value)
    /\ logged' = IF JsonParse(raw).ok THEN logged ELSE Log(SyntaxError)
    /\ escaped' = IF throws THEN escaped + 1 ELSE escaped

\* onmessage that puts the newest message first
OnMessageNewestFirst(raw, throws) ==
    IF JsonParse(raw).ok
    THEN /\ delivered' = << JsonParse(raw).value >> \o delivered
         /\ logged' = IF throws THEN Log(HandlerError) ELSE logged
         /\ UNCHANGED escaped
    ELSE /\ logged' = Log(SyntaxError)
         /\ UNCHANGED << delivered, escaped >>

\* onmessage with only JSON.parse inside the try block: what onMessage throws
\* leaves the handler
OnMessageParseGuarded(raw, throws) ==
    IF JsonParse(raw).ok
    THEN /\ delivered' = Append(delivered, JsonParse(raw).value)
         /\ escaped' = IF throws THEN escaped + 1 ELSE escaped
         /\ UNCHANGED logged
    ELSE /\ logged' = Log(SyntaxError)
         /\ UNCHANGED << delivered, escaped >>

\* the onmessage handler, lines 515-522: parse, hand the value to onMessage,
\* which returns or throws; the catch block takes a SyntaxError and what
\* onMessage throws alike, and logs it
OnMessage(raw, throws) ==
    IF JsonParse(raw).ok
    THEN /\ delivered' = Append(delivered, JsonParse(raw).value)
         /\ logged' = IF throws THEN Log(HandlerError) ELSE logged
         /\ UNCHANGED escaped
    ELSE /\ logged' = Log(SyntaxError)
         /\ UNCHANGED << delivered, escaped >>

\* a message event carrying raw is dispatched on the open socket s
Receive(s, raw) ==
    /\ sockets[s].readyState = "OPEN"
    /\ Len(arrived) < MaxFrames
    /\ arrived' = Append(arrived, raw)
    /\ OnMessage(raw, FALSE)
    /\ UNCHANGED << channel, outside >>

\* a message event carrying a well-formed raw is dispatched on the open
\* socket s, and the application's onMessage throws
ReceiveThrows(s, raw) ==
    /\ sockets[s].readyState = "OPEN"
    /\ JsonParse(raw).ok
    /\ Len(arrived) < MaxFrames
    /\ arrived' = Append(arrived, raw)
    /\ OnMessage(raw, TRUE)
    /\ UNCHANGED << channel, outside >>

Next ==
    \/ \E url \in Urls : Connect(url)
    \/ Disconnect
    \/ \E data \in Payloads : Send(data)
    \/ \E s \in SocketIds : TransportOpen(s)
    \/ \E s \in SocketIds : TransportClose(s)
    \/ Tick
    \/ TimerFire

Spec == Init /\ [][Next]_vars

\* the channel when no transport is ever established and the application
\* calls connect() once: every socket fails, which the browser reports with a
\* close event, and every timer runs out and has its callback run
FirstConnect == connectCalls = 0 /\ \E url \in Urls : Connect(url)

NeverOpenNext ==
    \/ FirstConnect
    \/ Disconnect
    \/ \E s \in SocketIds : TransportClose(s)
    \/ Tick
    \/ TimerFire

SpecNeverOpen ==
    /\ Init
    /\ [][NeverOpenNext]_vars
    /\ WF_vars(\E s \in SocketIds : TransportClose(s))
    /\ WF_vars(Tick)
    /\ WF_vars(TimerFire)

\* the channel with inbound frames
FramesNext ==
    \/ \E url \in Urls : Connect(url) /\ Len(sockets') <= MaxFrameSockets
    \/ Disconnect
    \/ \E s \in SocketIds : TransportOpen(s)
    \/ \E s \in SocketIds : TransportClose(s)
    \/ Tick
    \/ TimerFire /\ Len(sockets') <= MaxFrameSockets
    \/ \E s \in SocketIds, raw \in Frames : Receive(s, raw)

SpecFrames == Init /\ [][FramesNext]_vars

\* the channel after one connect(), with an onMessage that may throw
ThrowsNext ==
    \/ FirstConnect
    \/ \E s \in SocketIds : TransportOpen(s)
    \/ \E s \in SocketIds : TransportClose(s)
    \/ Tick
    \/ TimerFire /\ Len(sockets') <= MaxFrameSockets
    \/ \E s \in SocketIds, raw \in Frames : Receive(s, raw)
    \/ \E s \in SocketIds, raw \in Frames : ReceiveThrows(s, raw)

SpecThrows == Init /\ [][ThrowsNext]_vars

\* ------------------------------------------------------------------------
\* QuantPulse.api
\* ------------------------------------------------------------------------

\* String.prototype.startsWith for a one-character prefix
StartsWith(str, c) == Len(str) > 0 /\ str[1] = c

\* { ...a, ...b }: own keys of both, b's value where both have the key
Spread(a, b) ==
    [k \in (DOMAIN a) \cup (DOMAIN b) |-> IF k \in DOMAIN b THEN b[k] ELSE a[k]]

\* defaultOptions after lines 162-173
DefaultHeaders ==
    IF csrfToken # None
    THEN ("Content-Type" :> "application/json") @@ ("X-CSRFToken" :> csrfToken[1])
    ELSE ("Content-Type" :> "application/json")

DefaultOptions == [method |-> "GET", headers |-> DefaultHeaders]

\* line 175
RequestConfig(options) == Spread(DefaultOptions, options)

\* line 176
RequestUrl(endpoint) ==
    IF StartsWith(endpoint, "/") THEN apiBaseUrl \o endpoint ELSE endpoint

\* a promise: pending, fulfilled with a value, or rejected with an error
Pending == [state |-> "pending"]
Resolved(value) == [state |-> "resolved", value |-> value]
Rejected(name, message) == [state |-> "rejected", name |-> name, message |-> message]

\* response.ok
Ok(response) == response.status >= 200 /\ response.status <= 299

\* the then-callback of lines 179-184 and the promise it returns
ThenResponse(response) ==
    IF ~Ok(response)
    THEN Rejected("Error", "HTTP error! status: " \o ToString(response.status))
    ELSE IF JsonParse(response.body).ok
         THEN Resolved(JsonParse(response.body).value)
         ELSE Rejected("SyntaxError", "Unexpected end of JSON input")

\* request(endpoint, options), lines 161-178: one fetch; api names the
\* function the application called, data its data argument, if any, and
\* csrf what the page's token was when the call was made
RequestBody(api, endpoint, options, data) ==
    /\ Len(requests) < MaxRequests
    /\ requests' = Append(requests, [api |-> api, endpoint |-> endpoint,
                                     options |-> options, data |-> data,
                                     csrf |-> csrfToken,
                                     reply |-> None, outcome |-> Pending])
    /\ fetches' = Append(fetches, [call |-> Len(requests) + 1,
                                   url |-> RequestUrl(endpoint),
                                   config |-> RequestConfig(options)])

\* put that sends POST
PutOptionsAsPost(data) == [method |-> "POST", body |-> Stringify(data)]

\* the options of get, post, put and delete, lines 190-220
GetOptions == EmptyOptions
PostOptions(data) == [method |-> "POST", body |-> Stringify(data)]
PutOptions(data) == [method |-> "PUT", body |-> Stringify(data)]
DeleteOptions == [method |-> "DELETE"]

\* a failed response answered by fetching again
SettleWithRetry(r, reply) ==
    IF reply # NetworkError /\ ~Ok(reply)
    THEN /\ Len(fetches) <= MaxRequests
         /\ fetches' = Append(fetches, fetches[r])
         /\ UNCHANGED requests
    ELSE /\ requests' = [requests EXCEPT ![r].reply = Some(reply),
                                         ![r].outcome =
                                             IF reply = NetworkError
                                             THEN Rejected("TypeError", "Failed to fetch")
                                             ELSE ThenResponse(reply)]
         /\ UNCHANGED fetches

\* the promise of call r settles: fetch rejects with a TypeError, or the
\* then-callback runs on the response
Settle(r, reply) ==
    /\ requests' = [requests EXCEPT ![r].reply = Some(reply),
                                    ![r].outcome =
                                        IF reply = NetworkError
                                        THEN Rejected("TypeError", "Failed to fetch")
                                        ELSE ThenResponse(reply)]
    /\ UNCHANGED fetches

\* everything but QuantPulse.api
offApi == << channel, frameVars, cacheVars, timed >>

ApiRequest(endpoint, options) ==
    /\ RequestBody("request", endpoint, options, None)
    /\ UNCHANGED << csrfToken, offApi >>

ApiGet(endpoint) ==
    /\ RequestBody("get", endpoint, GetOptions, None)
    /\ UNCHANGED << csrfToken, offApi >>

ApiPost(endpoint, data) ==
    /\ RequestBody("post", endpoint, PostOptions(data), Some(data))
    /\ UNCHANGED << csrfToken, offApi >>

ApiPut(endpoint, data) ==
    /\ RequestBody("put", endpoint, PutOptions(data), Some(data))
    /\ UNCHANGED << csrfToken, offApi >>

ApiDelete(endpoint) ==
    /\ RequestBody("delete", endpoint, DeleteOptions, None)
    /\ UNCHANGED << csrfToken, offApi >>

\* the server answers call r
FetchResponds(r, response) ==
    /\ requests[r].outcome = Pending
    /\ Settle(r, response)
    /\ UNCHANGED << csrfToken, offApi >>

\* the document gains, changes or loses its <meta name="csrf-token">, which
\* request() looks up anew at every call
CsrfTokens == {None, Some("tok-123")}

PageSetsCsrfMeta(token) ==
    /\ csrfToken # token
    /\ csrfToken' = token
    /\ UNCHANGED << requests, fetches, offApi >>

\* the network fails call r
FetchFails(r) ==
    /\ requests[r].outcome = Pending
    /\ Settle(r, NetworkError)
    /\ UNCHANGED << csrfToken, offApi >>

ApiNext ==
    \/ \E endpoint \in Endpoints, options \in OptionSets : ApiRequest(endpoint, options)
    \/ \E endpoint \in Endpoints : ApiGet(endpoint)
    \/ \E endpoint \in Endpoints, data \in Payloads : ApiPost(endpoint, data)
    \/ \E endpoint \in Endpoints, data \in Payloads : ApiPut(endpoint, data)
    \/ \E endpoint \in Endpoints : ApiDelete(endpoint)
    \/ \E r \in 1 .. Len(requests), response \in Responses : FetchResponds(r, response)
    \/ \E r \in 1 .. Len(requests) : FetchFails(r)
    \/ \E token \in CsrfTokens : PageSetsCsrfMeta(token)

SpecApi == Init /\ [][ApiNext]_vars

\* ------------------------------------------------------------------------
\* QuantPulse.storage
\* ------------------------------------------------------------------------

\* what JSON.stringify followed by JSON.parse makes of a value: NaN has no
\* JSON form and is written as null
ToJson(value) == IF value = JsNaN THEN JsNull ELSE value

\* JSON.stringify(data) for data = { value, expiry }: the stored text
StoredText(value, expiry) == [kind |-> "object", value |-> ToJson(value), expiry |-> expiry]

\* truthiness of a number or null
Truthy(n) == n # None /\ n[1] # 0

\* an entry counted as expired whenever it has an expiry
ExpiredAlways(data) == data.expiry # None

\* data.expiry && Date.now() > data.expiry, line 588
Expired(data) == Truthy(data.expiry) /\ now > data.expiry[1]

\* set that keeps the expiry of the entry it replaces when it is given none
SetBodyMerging(key, value, expiry) ==
    LET old == localStorage[RawKey(key)]
        kept == IF old # None /\ old[1].kind = "object" THEN old[1].expiry ELSE None
    IN  localStorage' = [localStorage EXCEPT ![RawKey(key)] =
                            Some(StoredText(value, IF Truthy(expiry)
                                                   THEN Some(now + expiry[1])
                                                   ELSE kept))]

\* set(key, value, expiry), lines 575-581
SetBody(key, value, expiry) ==
    localStorage' = [localStorage EXCEPT ![RawKey(key)] =
                        Some(StoredText(value, IF Truthy(expiry)
                                               THEN Some(now + expiry[1])
                                               ELSE None))]

\* remove(key), lines 599-601
RemoveBody(key) == localStorage' = [localStorage EXCEPT ![RawKey(key)] = None]

\* JSON.parse(localStorage.getItem(...)) throws: the text is not JSON
ParseThrows(item) == item # None /\ item[1].kind = "garbage"

\* get whose JSON.parse is not inside a try block
GetBodyUncaught(key) ==
    LET item == localStorage[RawKey(key)]
    IN  /\ lastGet' = Some([key |-> key,
                            result |-> IF ParseThrows(item)
                                       THEN [type |-> "thrown", name |-> "SyntaxError"]
                                       ELSE JsNull])
        /\ UNCHANGED localStorage

\* get that removes every expired entry it finds in the store
GetBodySweeping(key) ==
    LET item == localStorage[RawKey(key)]
        swept == [raw \in RawKeys |->
                     IF /\ localStorage[raw] # None
                        /\ localStorage[raw][1].kind = "object"
                        /\ Expired(localStorage[raw][1])
                     THEN None
                     ELSE localStorage[raw]]
    IN  /\ localStorage' = swept
        /\ lastGet' = Some([key |-> key,
                            result |-> IF swept[RawKey(key)] = None \/ ParseThrows(item)
                                       THEN JsNull
                                       ELSE IF item[1].kind # "object"
                                       THEN JsUndefined
                                       ELSE item[1].value])

\* get(key), lines 583-597; getItem gives null for a missing key and
\* JSON.parse(null) is null; JSON.parse throws on text that is not JSON and
\* the catch returns null; text that is JSON but no entry (the number 1) is
\* truthy, has no expiry and no value
GetBody(key) ==
    LET item == localStorage[RawKey(key)]
    IN  IF item = None \/ ParseThrows(item)
        THEN /\ lastGet' = Some([key |-> key, result |-> JsNull])
             /\ UNCHANGED localStorage
        ELSE IF item[1].kind # "object"
        THEN /\ lastGet' = Some([key |-> key, result |-> JsUndefined])
             /\ UNCHANGED localStorage
        ELSE IF Expired(item[1])
        THEN /\ RemoveBody(key)
             /\ lastGet' = Some([key |-> key, result |-> JsNull])
        ELSE /\ lastGet' = Some([key |-> key, result |-> item[1].value])
             /\ UNCHANGED localStorage

\* key.startsWith('qp_')
HasPrefix(str, prefix) ==
    Len(str) >= Len(prefix) /\ SubSeq(str, 1, Len(prefix)) = prefix

\* clear that empties the whole store
ClearBodyWholeStore == localStorage' = [raw \in RawKeys |-> None]

\* clear(), lines 603-610
ClearBody ==
    localStorage' = [raw \in RawKeys |->
                        IF HasPrefix(raw, StoragePrefix) THEN None ELSE localStorage[raw]]

\* everything but QuantPulse.storage
offCache == << channel, frameVars, apiVars, timed >>

CacheSet(key, value, expiry) ==
    /\ SetBody(key, value, expiry)
    /\ written' = [written EXCEPT ![key] = Some([value |-> value, ttl |-> expiry, at |-> now])]
    /\ UNCHANGED << now, lastGet, replaced, offCache >>

\* set(key, value, expiry) on a key that holds the entry of an earlier set
CacheSetAgain(key, value, expiry) ==
    /\ written[key] # None
    /\ SetBody(key, value, expiry)
    /\ written' = [written EXCEPT ![key] = Some([value |-> value, ttl |-> expiry, at |-> now])]
    /\ replaced' = [replaced EXCEPT ![key] = written[key]]
    /\ UNCHANGED << now, lastGet, offCache >>

CacheGet(key) ==
    /\ GetBody(key)
    /\ UNCHANGED << now, written, replaced, offCache >>

CacheRemove(key) ==
    /\ RemoveBody(key)
    /\ written' = [written EXCEPT ![key] = None]
    /\ UNCHANGED << now, lastGet, replaced, offCache >>

CacheClear ==
    /\ ClearBody
    /\ written' = [key \in Keys |-> None]
    /\ UNCHANGED << now, lastGet, replaced, offCache >>

\* something other than the cache writes text under a cache key: the entry
\* set wrote, if any, is gone
StoreOverwritten(key, text) ==
    /\ localStorage[RawKey(key)] # Some(text)
    /\ localStorage' = [localStorage EXCEPT ![RawKey(key)] = Some(text)]
    /\ written' = [written EXCEPT ![key] = None]
    /\ UNCHANGED << now, lastGet, replaced, offCache >>

\* a millisecond passes
ClockTick ==
    /\ now < StartTime + MaxElapsed
    /\ now' = now + 1
    /\ UNCHANGED << localStorage, lastGet, written, replaced, offCache >>

CacheNext ==
    \/ \E key \in Keys, value \in Values, expiry \in Ttls : CacheSet(key, value, expiry)
    \/ \E key \in Keys : CacheGet(key)
    \/ \E key \in Keys : CacheRemove(key)
    \/ CacheClear
    \/ \E key \in Keys, text \in StoredTexts : StoreOverwritten(key, text)
    \/ ClockTick

SpecCache == Init /\ [][CacheNext]_vars

\* the cache under set, set again, get and remove on one key
ReplaceKeys == { << "a" >> }

ReplaceNext ==
    \/ \E key \in ReplaceKeys, value \in Values, expiry \in Ttls :
           written[key] = None /\ CacheSet(key, value, expiry)
    \/ \E key \in ReplaceKeys, value \in Values, expiry \in Ttls :
           CacheSetAgain(key, value, expiry)
    \/ \E key \in ReplaceKeys : CacheGet(key)
    \/ \E key \in ReplaceKeys : CacheRemove(key)
    \/ ClockTick

SpecReplace == Init /\ [][ReplaceNext]_vars


\* ------------------------------------------------------------------------
\* QuantPulse.utils.debounce
\* ------------------------------------------------------------------------

\* clearTimeout(handle): the callback with that handle, if pending, is dropped
ClearTimeout(pending, handle) == { t \in pending : t.id # handle }

\* a handle no pending callback and no variable still holds
FreshTimerId(used) == CHOOSE id \in TimerIds : id \notin used

\* a wrapper that schedules without cancelling
DebounceBodyNoCancel(args, this) ==
    LET id == FreshTimerId({ t.id : t \in debTimers } \cup { debTimeout })
    IN  /\ debTimers' = debTimers \cup { [id |-> id, due |-> clock + DebounceWait, args |-> args] }
        /\ debTimeout' = id

\* executedFunction(...args), lines 72-79
DebounceBody(args, this) ==
    LET cleared == ClearTimeout(debTimers, debTimeout)
        id == FreshTimerId({ t.id : t \in cleared } \cup { debTimeout })
    IN  /\ debTimers' = cleared \cup { [id |-> id, due |-> clock + DebounceWait, args |-> args] }
        /\ debTimeout' = id

\* later(), lines 73-76, run for the due callback t
LaterBody(t) ==
    /\ debTimers' = ClearTimeout(debTimers \ { t }, debTimeout)
    /\ debCalls' = Append(debCalls, [args |-> t.args, this |-> GlobalThis,
                                     at |-> clock, after |-> debBurst])

\* everything but the debounced wrapper
offDebounce == << channel, frameVars, apiVars, cacheVars, thrVars, toastVars >>

DebounceInvoke(args, this) ==
    /\ debBurst < MaxBurst
    /\ DebounceBody(args, this)
    /\ debLast' = Some([args |-> args, this |-> this, at |-> clock])
    /\ debBurst' = debBurst + 1
    /\ UNCHANGED << clock, debCalls, offDebounce >>

DebounceFire ==
    \E t \in debTimers :
        /\ t.due <= clock
        /\ LaterBody(t)
        /\ debBurst' = 0
        /\ UNCHANGED << clock, debTimeout, debLast, offDebounce >>

\* a millisecond passes; a callback that is due runs before the next one does
DebounceTick ==
    /\ clock < MaxClock
    /\ \A t \in debTimers : t.due > clock
    /\ clock' = clock + 1
    /\ UNCHANGED << debVars, offDebounce >>

DebounceNext ==
    \/ \E args \in ArgLists, this \in Contexts : DebounceInvoke(args, this)
    \/ DebounceFire
    \/ DebounceTick

SpecDebounce == Init /\ [][DebounceNext]_vars

\* ------------------------------------------------------------------------
\* QuantPulse.utils.throttle
\* ------------------------------------------------------------------------

\* a wrapper that calls func whatever inThrottle says
ThrottleBodyAlways(args, this) ==
    /\ thrCalls' = Append(thrCalls, [args |-> args, this |-> this, at |-> clock])
    /\ inThrottle' = TRUE
    /\ thrTimers' = Append(thrTimers, clock + ThrottleLimit)

\* a wrapper whose dropped invocations start the window over
ThrottleBodyRestarts(args, this) ==
    IF ~inThrottle
    THEN /\ thrCalls' = Append(thrCalls, [args |-> args, this |-> this, at |-> clock])
         /\ inThrottle' = TRUE
         /\ thrTimers' = Append(thrTimers, clock + ThrottleLimit)
    ELSE /\ thrTimers' = << clock + ThrottleLimit >>
         /\ UNCHANGED << thrCalls, inThrottle >>

\* the wrapper, lines 87-95
ThrottleBody(args, this) ==
    IF ~inThrottle
    THEN /\ thrCalls' = Append(thrCalls, [args |-> args, this |-> this, at |-> clock])
         /\ inThrottle' = TRUE
         /\ thrTimers' = Append(thrTimers, clock + ThrottleLimit)
    ELSE UNCHANGED << thrCalls, inThrottle, thrTimers >>

\* everything but the throttled wrapper
offThrottle == << channel, frameVars, apiVars, cacheVars, debVars, toastVars >>

ThrottleInvoke(args, this) ==
    /\ ThrottleBody(args, this)
    /\ thrInvokedAt' = thrInvokedAt \cup { clock }
    /\ UNCHANGED << clock, offThrottle >>

\* the callback of line 93 runs
ThrottleReset ==
    /\ thrTimers # << >>
    /\ Head(thrTimers) <= clock
    /\ thrTimers' = Tail(thrTimers)
    /\ inThrottle' = FALSE
    /\ UNCHANGED << clock, thrCalls, thrInvokedAt, offThrottle >>

\* a millisecond passes; a callback that is due runs before the next one does
ThrottleTick ==
    /\ clock < MaxClock
    /\ \A i \in 1 .. Len(thrTimers) : thrTimers[i] > clock
    /\ clock' = clock + 1
    /\ UNCHANGED << thrVars, offThrottle >>

ThrottleNext ==
    \/ \E args \in ArgLists, this \in Contexts : ThrottleInvoke(args, this)
    \/ ThrottleReset
    \/ ThrottleTick

SpecThrottle == Init /\ [][ThrottleNext]_vars

\* ------------------------------------------------------------------------
\* QuantPulse.toast
\* ------------------------------------------------------------------------

\* truthiness of the duration argument: null and 0 are falsy
Given(duration) == duration # None /\ duration[1] # 0

\* line 238
Timeout(duration) == IF Given(duration) THEN duration[1] ELSE ToastTimeout

\* the element show creates, in the container; the fields after inDom record
\* what happened to it: hide calls by the application or the close button,
\* hide calls in all, removeChild calls, when it got the hiding class and when
\* it left the container
NewToast(duration) ==
    [duration |-> duration, shownAt |-> clock, show |-> FALSE, hiding |-> FALSE,
     inDom |-> TRUE, dismissals |-> 0, hideCalls |-> 0, removals |-> 0,
     hidingAt |-> None, removedAt |-> None]

\* show without the auto-hide timer of lines 239-241
ShowBodyNoAutoHide(duration) ==
    /\ toasts' = Append(toasts, NewToast(duration))
    /\ toastTimers' = Append(toastTimers,
           [kind |-> "show", toast |-> Len(toasts) + 1, due |-> clock + ShowDelay])

\* show(message, type, duration), lines 228-244
ShowBody(duration) ==
    /\ toasts' = Append(toasts, NewToast(duration))
    /\ toastTimers' = toastTimers \o
           << [kind |-> "show", toast |-> Len(toasts) + 1, due |-> clock + ShowDelay],
              [kind |-> "hide", toast |-> Len(toasts) + 1, due |-> clock + Timeout(duration)] >>

\* hide(toast), lines 262-269, on the timers left; explicit tells a call by
\* the application or the close button from the one of the auto-hide callback
HideBody(id, left, explicit) ==
    /\ toasts' = [toasts EXCEPT ![id].hiding = TRUE,
                                ![id].hideCalls = @ + 1,
                                ![id].dismissals = IF explicit THEN @ + 1 ELSE @,
                                ![id].hidingAt = IF toasts[id].hiding THEN @ ELSE Some(clock)]
    /\ toastTimers' = Append(left, [kind |-> "remove", toast |-> id, due |-> clock + ExitDelay])

\* a removal callback that does not look at parentNode
RemoveLaterUnguarded(id) ==
    toasts' = [toasts EXCEPT ![id].inDom = FALSE,
                             ![id].removals = @ + 1,
                             ![id].removedAt = Some(clock)]

\* the callback of lines 264-268
RemoveLater(id) ==
    IF toasts[id].inDom
    THEN toasts' = [toasts EXCEPT ![id].inDom = FALSE,
                                  ![id].removals = @ + 1,
                                  ![id].removedAt = Some(clock)]
    ELSE UNCHANGED toasts

\* everything but the toasts
offToast == << channel, frameVars, apiVars, cacheVars, debVars, thrVars >>

ToastShow(duration) ==
    /\ Len(toasts) < MaxToasts
    /\ ShowBody(duration)
    /\ UNCHANGED << clock, offToast >>

\* explicit hide calls so far, over the first n toasts
RECURSIVE Dismissals(_)
Dismissals(n) == IF n = 0 THEN 0 ELSE toasts[n].dismissals + Dismissals(n - 1)

\* the application, or the close button, calls hide(toast)
ToastHide(id) ==
    /\ Dismissals(Len(toasts)) < MaxHides
    /\ HideBody(id, toastTimers, TRUE)
    /\ UNCHANGED << clock, offToast >>

\* the position of the callback that runs next: the first one that is due
NextDue ==
    CHOOSE i \in 1 .. Len(toastTimers) :
        /\ toastTimers[i].due <= clock
        /\ \A j \in 1 .. i - 1 : toastTimers[j].due > clock

\* toastTimers without position i
Without(i) == SubSeq(toastTimers, 1, i - 1) \o SubSeq(toastTimers, i + 1, Len(toastTimers))

AnyDue == \E i \in 1 .. Len(toastTimers) : toastTimers[i].due <= clock

\* the callback of line 235 runs
ToastAnimate ==
    /\ AnyDue
    /\ toastTimers[NextDue].kind = "show"
    /\ toasts' = [toasts EXCEPT ![toastTimers[NextDue].toast].show = TRUE]
    /\ toastTimers' = Without(NextDue)
    /\ UNCHANGED << clock, offToast >>

\* the callback of lines 239-241 runs
ToastAutoHide ==
    /\ AnyDue
    /\ toastTimers[NextDue].kind = "hide"
    /\ HideBody(toastTimers[NextDue].toast, Without(NextDue), FALSE)
    /\ UNCHANGED << clock, offToast >>

\* the callback of lines 264-268 runs
ToastRemove ==
    /\ AnyDue
    /\ toastTimers[NextDue].kind = "remove"
    /\ RemoveLater(toastTimers[NextDue].toast)
    /\ toastTimers' = Without(NextDue)
    /\ UNCHANGED << clock, offToast >>

\* time passes until the next callback is due
ToastTick ==
    /\ toastTimers # << >>
    /\ ~AnyDue
    /\ clock' = Min({ toastTimers[i].due : i \in 1 .. Len(toastTimers) })
    /\ UNCHANGED << toastVars, offToast >>

ToastNext ==
    \/ \E duration \in Durations : ToastShow(duration)
    \/ \E id \in 1 .. Len(toasts) : ToastHide(id)
    \/ ToastAnimate
    \/ ToastAutoHide
    \/ ToastRemove
    \/ ToastTick

SpecToast == Init /\ [][ToastNext]_vars

\* the event loop takes its next step: the callback that is due, or the wait
\* for the next one
ToastLoop == ToastAnimate \/ ToastAutoHide \/ ToastRemove \/ ToastTick

\* the toasts when time goes on and the event loop runs every callback that
\* is due
SpecToastFair == Init /\ [][ToastNext]_vars /\ WF_vars(ToastLoop)

\* ------------------------------------------------------------------------
\* Channel states of the specification, read off the fields
\* ------------------------------------------------------------------------

\* a step that is an application call of connect()
AppConnect == \E url \in Urls : Connect(url)

\* no retry is pending and no socket can still dispatch an open or a message
Quiet == timers = << >> /\ Live = {}

TypeOK ==
    /\ connection \in {null} \cup SocketIds
    /\ reconnectAttempts \in Nat
    /\ \A s \in SocketIds : sockets[s].readyState \in ReadyStates /\ sockets[s].url \in Urls \cup {Released}
    /\ \A i \in 1 .. Len(timers) : timers[i].url \in Urls /\ timers[i].remaining \in Nat

\* ------------------------------------------------------------------------
\* Claims about the channel
\* ------------------------------------------------------------------------

\* C1: after an explicit disconnect() and until the application calls
\* connect() again, no step schedules a retry timer and no step opens a new
\* transport connection.
C1_DisconnectSuppressesReconnect ==
    [][ (connection = null /\ disconnectCalls > 0 /\ ~AppConnect)
            => (Len(timers') <= Len(timers) /\ Len(sockets') = Len(sockets)) ]_vars

\* C2: in every reachable state at most one reconnect timer is outstanding.
C2_AtMostOneTimer == Len(timers) <= 1

\* C3: connect() called while a retry timer is pending and the connection is
\* not open cancels the pending timer and opens a connection at once.
C3_ConnectCancelsTimer ==
    [][ (AppConnect /\ timers # << >> /\ ~IsOpen)
            => (timers' = << >> /\ Len(sockets') = Len(sockets) + 1) ]_vars

\* C4: disconnect() called while a retry timer is pending cancels it, so the
\* timer never fires.
C4_DisconnectCancelsTimer ==
    [][ (Disconnect /\ timers # << >>) => timers' = << >> ]_vars

\* C5: in every reachable state at most one socket is live (CONNECTING or
\* OPEN) with the channel's handlers attached.
C5_AtMostOneLive == Cardinality(Live) <= 1

\* C6: reconnectAttempts stays within 0 .. maxReconnectAttempts, and once the
\* connection closes while reconnectAttempts = maxReconnectAttempts the
\* channel is quiet (no timer pending, no live socket) and stays so until the
\* application calls connect().
C6_BoundedThenClosed ==
    /\ [](reconnectAttempts >= 0 /\ reconnectAttempts <= maxReconnectAttempts)
    /\ [][ (/\ connection # null
            /\ TransportClose(connection)
            /\ reconnectAttempts = maxReconnectAttempts) => Quiet' ]_vars
    /\ [][ (/\ reconnectAttempts = maxReconnectAttempts
            /\ connection # null
            /\ sockets[connection].readyState = "CLOSED"
            /\ Quiet
            /\ ~AppConnect) => Quiet' ]_vars

\* C7: a close event while reconnectAttempts < maxReconnectAttempts adds 1 to
\* reconnectAttempts and schedules exactly one timer, for the closed socket's
\* url, with delay reconnectInterval whatever the attempt number; a close
\* event while reconnectAttempts = maxReconnectAttempts changes neither; a
\* timer runs only once its full delay has passed and then calls connect
\* with its url; reconnectInterval itself never changes.
C7_CloseSchedulesOneRetry ==
    /\ [][ \A s \in SocketIds : TransportClose(s) =>
             IF reconnectAttempts < maxReconnectAttempts
             THEN /\ reconnectAttempts' = reconnectAttempts + 1
                  /\ timers' = Append(timers, [url |-> sockets[s].url,
                                               delay |-> reconnectInterval,
                                               remaining |-> reconnectInterval])
             ELSE /\ reconnectAttempts' = reconnectAttempts
                  /\ timers' = timers ]_vars
    /\ [][ Len(timers') < Len(timers) =>
             /\ Head(timers).remaining = 0
             /\ Head(timers).delay = reconnectInterval
             /\ timers' = Tail(timers)
             /\ \/ IsOpen /\ sockets' = sockets
                \/ ~IsOpen /\ sockets' = Append(sockets, NewSocket(Head(timers).url)) ]_vars
    /\ [][ reconnectInterval' = reconnectInterval ]_vars

\* closes happened both below the limit and at the limit
C7_Witness ==
    /\ onConnectCalls = 0
    /\ reconnectAttempts = maxReconnectAttempts
    /\ onDisconnectCalls = maxReconnectAttempts + 1

\* C8: every open event sets reconnectAttempts to 0 and invokes onConnect
\* exactly once, after the reset (the hook sees 0); nothing else invokes
\* onConnect.
C8_OpenResetsThenHook ==
    /\ [][ \A s \in SocketIds : TransportOpen(s) =>
             /\ reconnectAttempts' = 0
             /\ onConnectCalls' = onConnectCalls + 1
             /\ onConnectSeen' = 0 ]_vars
    /\ [][ onConnectCalls' # onConnectCalls => \E s \in SocketIds : TransportOpen(s) ]_vars

\* fail, fail, succeed: two closes, then the first open
C8_Witness ==
    /\ onDisconnectCalls = 2
    /\ onConnectCalls = 1
    /\ Len(sockets) = 3
    /\ IsOpen
    /\ reconnectAttempts = 0
    /\ onConnectSeen = 0

\* the scenario of C9: maxAttempts = 3, retryIntervalMs = 1000, one connect()
\* by the application, no disconnect(), and the transport never opens
Scenario ==
    /\ maxReconnectAttempts = 3
    /\ reconnectInterval = 1000
    /\ connectCalls = 1
    /\ disconnectCalls = 0
    /\ onConnectCalls = 0

\* C9 as stated: after 3 consecutive failures the channel has ended Closed
\* (no retry pending, no live socket), and when it has ended onDisconnect
\* ran exactly 3 times.
C9_ThreeFailuresEnd ==
    Scenario =>
        /\ onDisconnectCalls = 3 => Quiet
        /\ (onDisconnectCalls > 0 /\ Quiet) => onDisconnectCalls = 3

\* C9 amended: the channel ends Closed after 4 failed connections (the first
\* and 3 retries); onDisconnect then ran exactly 4 times, and never more: no
\* 4th retry is scheduled and no 5th connection is opened.
C9_FourFailuresEnd ==
    Scenario =>
        /\ Len(sockets) <= 4
        /\ onDisconnectCalls <= 4
        /\ reconnectAttempts = IF onDisconnectCalls <= 3 THEN onDisconnectCalls ELSE 3
        /\ onDisconnectCalls < 4 => ~Quiet
        /\ onDisconnectCalls = 4 => Quiet /\ Len(sockets) = 4

C9_Witness ==
    /\ Scenario
    /\ onDisconnectCalls = 4
    /\ Quiet

\* C10: a frame is transmitted only by send() while the connection is OPEN,
\* and then it is the serialized payload; in a step that starts with the
\* connection not OPEN (the open event included) nothing is transmitted.
C10_SendOnlyWhenOpen ==
    /\ [][ \A data \in Payloads : (Send(data) /\ IsOpen) =>
             sent' = Append(sent, Stringify(data)) ]_vars
    /\ [][ ~IsOpen => sent' = sent ]_vars
    /\ [][ sent' # sent =>
             \E data \in Payloads : Send(data) /\ sent' = Append(sent, Stringify(data)) ]_vars

\* one frame went out while open; the channel is no longer open
C10_Witness ==
    /\ Len(sent) = 1
    /\ ~IsOpen
    /\ connection # null

\* C11: connect(url) while the connection is OPEN changes nothing of the
\* channel (no socket created; connection, reconnectAttempts, timers and hook
\* counters as before); in every other state it creates one socket, which is
\* CONNECTING, and makes it this.connection.
C11_ConnectNoOpWhenOpen ==
    [][ \A url \in Urls : Connect(url) =>
          IF IsOpen
          THEN UNCHANGED << connection, sockets, reconnectAttempts, timers, sent, hooks >>
          ELSE /\ sockets' = Append(sockets, NewSocket(url))
               /\ connection' = Len(sockets')
               /\ sockets'[connection'].readyState = "CONNECTING"
               /\ UNCHANGED << reconnectAttempts, timers, sent, hooks >> ]_vars

\* connect() was called on an open channel (one socket, two calls), and
\* connect() was called on a channel that was not open
C11_Witness ==
    /\ connectCalls = 2
    /\ Len(sockets) = 1
    /\ IsOpen

\* ------------------------------------------------------------------------
\* Claims about inbound frames
\* ------------------------------------------------------------------------

\* the values onMessage must have received, in order, for the frames raws
WellFormed(raw) == JsonParse(raw).ok
ParsedInOrder(raws) ==
    LET good == SelectSeq(raws, WellFormed)
    IN [i \in 1 .. Len(good) |-> JsonParse(good[i]).value]

\* C12: a message event whose data parses invokes onMessage exactly once,
\* with the parsed value; one whose data does not parse invokes nothing; in
\* both cases the connection, its sockets, reconnectAttempts and the timers
\* are as before.
C12_FrameParsedOrDropped ==
    [][ \A s \in SocketIds, raw \in Frames : Receive(s, raw) =>
          /\ IF JsonParse(raw).ok
             THEN delivered' = Append(delivered, JsonParse(raw).value)
             ELSE delivered' = delivered
          /\ UNCHANGED << connection, sockets, reconnectAttempts, timers, hooks >> ]_vars

\* a malformed frame was dropped, a later well-formed one delivered, and the
\* connection is still open
C12_Witness ==
    /\ Len(arrived) = 2
    /\ ~JsonParse(arrived[1]).ok
    /\ Len(delivered) = 1
    /\ IsOpen

\* C13: the onMessage calls are the parsed well-formed frames, in the order
\* of their message events, whatever malformed frames came in between.
C13_ArrivalOrder == delivered = ParsedInOrder(arrived)

\* two different well-formed frames with a malformed one between them
C13_Witness ==
    /\ Len(arrived) = 3
    /\ JsonParse(arrived[1]).ok
    /\ ~JsonParse(arrived[2]).ok
    /\ JsonParse(arrived[3]).ok
    /\ arrived[1] # arrived[3]
    /\ delivered = << JsonParse(arrived[1]).value, JsonParse(arrived[3]).value >>

\* ------------------------------------------------------------------------
\* Claims about the request client
\* ------------------------------------------------------------------------

\* an absolute reference: a scheme followed by "://"
IsAbsolute(endpoint) ==
    \E i \in 2 .. Len(endpoint) - 2 :
        /\ endpoint[i] = ":"
        /\ endpoint[i + 1] = "/"
        /\ endpoint[i + 2] = "/"

\* the call that made fetch i
CallOf(i) == requests[fetches[i].call]

\* C14: every request goes to the base path followed by the endpoint if the
\* endpoint is not an absolute reference, and to the endpoint itself,
\* unchanged, if it is one.
C14_PrefixedIffNotAbsolute ==
    \A i \in 1 .. Len(fetches) :
        fetches[i].url = IF IsAbsolute(CallOf(i).endpoint)
                         THEN CallOf(i).endpoint
                         ELSE apiBaseUrl \o CallOf(i).endpoint

\* C15: whatever options the caller passed, the outgoing request carries the
\* X-CSRFToken header with the page token's value when the page had a token at
\* the call, and no X-CSRFToken header when it had none.
C15_TokenHeaderIffToken ==
    \A i \in 1 .. Len(fetches) :
        LET headers == fetches[i].config.headers
            token == CallOf(i).csrf
        IN  IF token # None
            THEN /\ "X-CSRFToken" \in DOMAIN headers
                 /\ headers["X-CSRFToken"] = token[1]
            ELSE "X-CSRFToken" \notin DOMAIN headers

\* C16: a settled request has one of three results: rejected with the HTTP
\* error carrying the status when the status is not a success; rejected with
\* an error that is not the HTTP error when the transport failed; resolved
\* with the parsed body when the status is a success.
C16_ThreeOutcomes ==
    \A r \in 1 .. Len(requests) :
        requests[r].reply # None =>
            LET reply == requests[r].reply[1]
                outcome == requests[r].outcome
            IN  IF reply = NetworkError
                THEN outcome.state = "rejected" /\ outcome.name # "Error"
                ELSE IF ~Ok(reply)
                THEN outcome = Rejected("Error", "HTTP error! status: "
                                                 \o ToString(reply.status))
                ELSE outcome = Resolved(JsonParse(reply.body).value)

\* C17: every call of request, get, post, put and delete makes exactly one
\* fetch, a settled result never changes, and nothing but a new call makes a
\* fetch: no failure is answered by another send.
C17_OneSendOneSettle ==
    /\ [](/\ Len(fetches) = Len(requests)
          /\ \A i \in 1 .. Len(fetches) : fetches[i].call = i)
    /\ [][/\ \A r \in 1 .. Len(requests) :
                requests[r].outcome # Pending => requests'[r] = requests[r]
          /\ fetches' # fetches => Len(requests') = Len(requests) + 1]_vars

\* a call has failed on its HTTP status and its fetch is the only one
C17_Witness ==
    \E r \in 1 .. Len(requests) :
        /\ requests[r].outcome.state = "rejected"
        /\ requests[r].outcome.name = "Error"
        /\ Len(fetches) = Len(requests)

\* the method each convenience form fixes
MethodOf(api) ==
    CASE api = "get" -> "GET"
      [] api = "post" -> "POST"
      [] api = "put" -> "PUT"
      [] api = "delete" -> "DELETE"

\* C18: get, post, put and delete send what request sends for their endpoint,
\* with the method GET, POST, PUT and DELETE; post and put send the serialized
\* data as the body, get and delete send no body.
C18_ConvenienceForms ==
    \A i \in 1 .. Len(fetches) :
        CallOf(i).api # "request" =>
            LET sentConfig == fetches[i].config
            IN  /\ fetches[i].url = RequestUrl(CallOf(i).endpoint)
                /\ sentConfig.method = MethodOf(CallOf(i).api)
                /\ IF CallOf(i).api \in {"post", "put"}
                   THEN /\ "body" \in DOMAIN sentConfig
                        /\ sentConfig.body = Stringify(CallOf(i).data[1])
                   ELSE "body" \notin DOMAIN sentConfig

\* put('/x', 'sub') has been sent
C18_Witness ==
    \E i \in 1 .. Len(fetches) :
        /\ CallOf(i).api = "put"
        /\ CallOf(i).data = Some("sub")
        /\ fetches[i].config.method = "PUT"
        /\ fetches[i].config.body = Quote("sub")

\* ------------------------------------------------------------------------
\* Claims about the cache
\* ------------------------------------------------------------------------

\* a value that JSON.stringify and JSON.parse give back unchanged
Serializable(value) == ToJson(value) = value

\* the last set on key, not removed or cleared since, was made with a time to
\* live and that time has not yet passed, or was made without one
NotYetExpired(key) ==
    /\ written[key] # None
    /\ \/ written[key][1].ttl = None
       \/ now < written[key][1].at + written[key][1].ttl[1]

\* the last set on key was made with a time to live and at least that much
\* time has passed since
TtlElapsed(key) ==
    /\ written[key] # None
    /\ written[key][1].ttl # None
    /\ now >= written[key][1].at + written[key][1].ttl[1]

\* C19: after set(k, v, ttl) with a serializable v, a get(k) made before the
\* expiry time returns v, and after set(k, v) without ttl a get(k) made at
\* any later time returns v.
C19_SetThenGet ==
    [][\A key \in Keys :
          (CacheGet(key) /\ NotYetExpired(key) /\ Serializable(written[key][1].value))
              => lastGet' = Some([key |-> key, result |-> written[key][1].value])]_vars

\* set(k, 'dark', 2) was followed, a millisecond later, by a get(k) that
\* returned 'dark'
C19_Witness ==
    \E key \in Keys :
        /\ written[key] = Some([value |-> JsString("dark"), ttl |-> Some(2), at |-> now - 1])
        /\ lastGet = Some([key |-> key, result |-> JsString("dark")])
        /\ localStorage[RawKey(key)] # None

\* C20: get(k) returns the stored value only if the entry has no expiry or an
\* expiry later than now; once the time since set(k, v, ttl) is ttl or more,
\* get(k) returns absent and that get removes the prefixed key from the store.
C20_ExpiredAtTtl ==
    [][\A key \in Keys :
          CacheGet(key) =>
              /\ lastGet'[1].result # JsNull =>
                    \/ localStorage[RawKey(key)][1].expiry = None
                    \/ localStorage[RawKey(key)][1].expiry[1] > now
              /\ TtlElapsed(key) =>
                    /\ lastGet'[1].result = JsNull
                    /\ localStorage'[RawKey(key)] = None]_vars

\* the raw keys of the application's namespace, and the other keys of the store
Namespaced == { RawKey(key) : key \in Keys }
Foreign == RawKeys \ Namespaced

\* every raw key but those in keep holds what it held
OnlyTouches(keep) == \A raw \in RawKeys \ keep : localStorage'[raw] = localStorage[raw]

\* C21: clear() empties every key of the application's namespace and leaves
\* every foreign key with its value; set, get and remove on key k change no
\* store entry but the one named prefix + k.
C21_NamespaceOnly ==
    [][/\ CacheClear =>
              /\ \A raw \in Namespaced : localStorage'[raw] = None
              /\ OnlyTouches(Namespaced)
       /\ \A key \in Keys :
              \/ CacheGet(key)
              \/ CacheRemove(key)
              \/ \E value \in Values, expiry \in Ttls : CacheSet(key, value, expiry)
              => OnlyTouches({RawKey(key)})]_vars

\* clear() has emptied the namespace next to a foreign key that still holds
\* its text, after both cache keys had been used
C21_Witness ==
    /\ \A raw \in Namespaced : localStorage[raw] = None
    /\ \A raw \in Foreign : localStorage[raw] = Some(ForeignText)
    /\ lastGet # None
    /\ lastGet[1].result = JsString("dark")
    /\ \A key \in Keys : written[key] = None

\* C22: get(k) on an entry whose text cannot be parsed returns absent, raises
\* nothing and leaves the store as it is; get(k) on a key that holds nothing
\* returns absent as well.
C22_CorruptIsAbsent ==
    [][\A key \in Keys :
          (CacheGet(key) /\ (localStorage[RawKey(key)] = None
                             \/ localStorage[RawKey(key)] = Some(CorruptText)))
              => /\ lastGet' = Some([key |-> key, result |-> JsNull])
                 /\ localStorage' = localStorage]_vars

\* a get has returned absent for a key that holds unparseable text
C22_Witness ==
    \E key \in Keys :
        /\ localStorage[RawKey(key)] = Some(CorruptText)
        /\ lastGet = Some([key |-> key, result |-> JsNull])

\* ------------------------------------------------------------------------
\* Claims about the rate limiters
\* ------------------------------------------------------------------------

\* the last call of func is the one the most recent invocation asked for
LastCallIsForLast ==
    /\ Len(debCalls) > 0
    /\ debCalls[Len(debCalls)].args = debLast[1].args
    /\ debCalls[Len(debCalls)].at = debLast[1].at + DebounceWait
    /\ debBurst = 0

\* C23: at most one debounce timer is pending at any time; func is called
\* only DebounceWait after the most recent invocation, with that invocation's
\* arguments, so a burst of invocations less than DebounceWait apart produces
\* no call before its last invocation; and that last invocation is followed
\* by exactly one call.
C23_DebounceOnce ==
    /\ [](Cardinality(debTimers) <= 1)
    /\ [](debLast # None => ((debTimers # {}) # LastCallIsForLast))
    /\ [][debCalls' # debCalls =>
             /\ debLast # None
             /\ clock = debLast[1].at + DebounceWait
             /\ debCalls' = Append(debCalls, [args |-> debLast[1].args, this |-> GlobalThis,
                                              at |-> clock, after |-> debBurst])
             /\ debTimers' = {}]_vars

\* five invocations, each less than DebounceWait after the one before, have
\* produced one call, made DebounceWait after the fifth with the fifth's
\* arguments
C23_Witness ==
    /\ debCalls = << [args |-> "b", this |-> GlobalThis, at |-> 3, after |-> 5] >>
    /\ debLast = Some([args |-> "b", this |-> "element", at |-> 1])
    /\ debTimers = {}

\* the window the last call of the throttled func started is still running,
\* and it has run out
InWindow == Len(thrCalls) > 0 /\ clock < thrCalls[Len(thrCalls)].at + ThrottleLimit
WindowOver == Len(thrCalls) = 0 \/ clock > thrCalls[Len(thrCalls)].at + ThrottleLimit

\* this step is an invocation of the throttled wrapper
Throttled == \E args \in ArgLists, this \in Contexts : ThrottleInvoke(args, this)

\* C24: an invocation outside a window calls func at once and starts a window
\* with one reset pending at its end; an invocation during the window changes
\* nothing; func is called by no step but an invocation; the reset runs when
\* the window has elapsed, calls nothing, and is the only one of its window.
C24_ThrottleWindow ==
    /\ [](Len(thrTimers) <= 1)
    /\ [][\A args \in ArgLists, this \in Contexts :
             ThrottleInvoke(args, this) =>
                 /\ InWindow => UNCHANGED << thrCalls, thrTimers, inThrottle >>
                 /\ WindowOver =>
                       /\ thrCalls' = Append(thrCalls, [args |-> args, this |-> this,
                                                        at |-> clock])
                       /\ thrTimers' = << clock + ThrottleLimit >>]_vars
    /\ [][thrCalls' # thrCalls => Throttled]_vars
    /\ [][ThrottleReset =>
             /\ clock = thrCalls[Len(thrCalls)].at + ThrottleLimit
             /\ thrTimers' = << >>
             /\ thrCalls' = thrCalls]_vars

\* a call at 0, an invocation at 1 that was dropped, and a second call, made
\* by the first invocation after the window ran out
C24_Witness ==
    /\ Len(thrCalls) = 2
    /\ thrCalls[1].at = 0
    /\ thrCalls[2].at = 3
    /\ thrInvokedAt = { 0, 1, 3 }

\* the wrapper was invoked in every millisecond of three windows from 0 on,
\* and in no other
Continuous == thrInvokedAt = 0 .. (3 * ThrottleLimit - 1)

\* C25: invoking the wrapper in every millisecond of three windows yields
\* exactly 3 calls of func, and an invocation made exactly when the window
\* runs out calls func.
C25_ThreeCallsInThreeWindows ==
    /\ []((Continuous /\ clock >= 3 * ThrottleLimit) => Len(thrCalls) = 3)
    /\ [][(Throttled /\ Len(thrCalls) > 0
                     /\ clock = thrCalls[Len(thrCalls)].at + ThrottleLimit)
             => Len(thrCalls') = Len(thrCalls) + 1]_vars

\* the invocation that caused the last debounced call
DebounceCause == debLast[1]

\* C26: every call of func by the debounce wrapper has the arguments and the
\* this of the most recent invocation, and every call of func by the throttle
\* wrapper has the arguments and the this of the invocation that made it.
C26_ArgsAndContext ==
    /\ [][debCalls' # debCalls =>
             /\ debCalls'[Len(debCalls')].args = DebounceCause.args
             /\ debCalls'[Len(debCalls')].this = DebounceCause.this]_vars
    /\ [][\A args \in ArgLists, this \in Contexts :
             (ThrottleInvoke(args, this) /\ thrCalls' # thrCalls) =>
                 /\ thrCalls'[Len(thrCalls')].args = args
                 /\ thrCalls'[Len(thrCalls')].this = this]_vars

\* ------------------------------------------------------------------------
\* Claims about the toasts
\* ------------------------------------------------------------------------

ToastIds == 1 .. Len(toasts)

\* what the page shows of a toast
Visible(toast) == << toast.show, toast.hiding, toast.inDom >>

DismissedAndGone(id) == toasts[id].dismissals > 0 /\ ~toasts[id].inDom

\* C28: once a toast dismissed before its duration elapsed has been removed,
\* no auto-hide callback is pending for it, and none runs hide on it.
C28_DismissCancelsAutoHide ==
    /\ [](\A id \in ToastIds :
             DismissedAndGone(id) =>
                 \A i \in 1 .. Len(toastTimers) :
                     ~(toastTimers[i].kind = "hide" /\ toastTimers[i].toast = id))
    /\ [][ToastAutoHide => ~DismissedAndGone(toastTimers[NextDue].toast)]_vars

\* the time after which the toast is to hide: the duration if one was
\* specified, the configured default if not
HideAfter(duration) == IF duration # None THEN duration[1] ELSE ToastTimeout

\* the auto-hide callbacks pending for toast id
AutoHides(id) ==
    { i \in 1 .. Len(toastTimers') :
          toastTimers'[i].kind = "hide" /\ toastTimers'[i].toast = id }

\* C29: show appends one entry to the container and schedules one auto-hide,
\* due after the specified duration, whatever it is, or after the default if
\* none was specified; a toast that nobody hides gets the hiding class at that
\* time and leaves the container ExitDelay later.
C29_AutoHideAtDuration ==
    /\ [][\A duration \in Durations :
             ToastShow(duration) =>
                 /\ Len(toasts') = Len(toasts) + 1
                 /\ toasts'[Len(toasts')].inDom
                 /\ Cardinality(AutoHides(Len(toasts'))) = 1
                 /\ \A i \in AutoHides(Len(toasts')) :
                        toastTimers'[i].due = clock + HideAfter(duration)]_vars
    /\ [](\A id \in ToastIds :
             toasts[id].dismissals = 0 =>
                 /\ toasts[id].hidingAt # None =>
                        toasts[id].hidingAt[1] = toasts[id].shownAt + HideAfter(toasts[id].duration)
                 /\ toasts[id].removedAt # None =>
                        toasts[id].removedAt[1] = toasts[id].hidingAt[1] + ExitDelay
                 /\ clock > toasts[id].shownAt + HideAfter(toasts[id].duration) =>
                        toasts[id].hiding)

\* ------------------------------------------------------------------------
\* Claims about the attempt counter
\* ------------------------------------------------------------------------

\* C30: a step that decreases reconnectAttempts is a transport open event and
\* sets it to 0; connect(), disconnect(), send(), close events and retry
\* timers never decrease it.
C30_OnlyOpenResets ==
    [][reconnectAttempts' < reconnectAttempts =>
          /\ \E s \in SocketIds : TransportOpen(s)
          /\ reconnectAttempts' = 0]_vars

\* after a close had counted an attempt, an open has reset the counter, and a
\* frame has been sent on the open connection
C30_Witness ==
    /\ reconnectAttempts = 0
    /\ onDisconnectCalls > 0
    /\ onConnectCalls > 0
    /\ sent # << >>
    /\ IsOpen

\* ------------------------------------------------------------------------
\* Claims about close events and retries
\* ------------------------------------------------------------------------

\* C31: every close event, whatever closed the transport, invokes onDisconnect
\* exactly once, and the hook runs before the retry policy: it sees
\* reconnectAttempts as it was before the event; nothing but a close event
\* invokes the hook.
C31_HookBeforePolicy ==
    /\ [][\A s \in SocketIds :
             TransportClose(s) =>
                 /\ onDisconnectCalls' = onDisconnectCalls + 1
                 /\ onDisconnectSeen' = reconnectAttempts]_vars
    /\ [][onDisconnectCalls' # onDisconnectCalls =>
             \E s \in SocketIds : TransportClose(s)]_vars

\* the close caused by disconnect() has invoked the hook, which saw 0
\* attempts, and the policy has then counted the first attempt
C31_Witness ==
    /\ disconnectCalls = 1
    /\ onDisconnectCalls = 1
    /\ onDisconnectSeen = 0
    /\ reconnectAttempts = 1
    /\ Len(timers) = 1

\* ------------------------------------------------------------------------
\* Claims about expiry
\* ------------------------------------------------------------------------

\* C32: set stores expiry = now + ttl whenever a ttl is given, 0 included, and
\* no expiry when none is given; an entry set with ttl 0 is absent at the next
\* read, an entry set without ttl is returned by every read.
C32_ExpiryWheneverGiven ==
    /\ [][\A key \in Keys, value \in Values, expiry \in Ttls :
             CacheSet(key, value, expiry) =>
                 localStorage'[RawKey(key)][1].expiry =
                     IF expiry # None THEN Some(now + expiry[1]) ELSE None]_vars
    /\ [][\A key \in Keys :
             (CacheGet(key) /\ written[key] # None) =>
                 /\ written[key][1].ttl = Some(0) => lastGet'[1].result = JsNull
                 /\ written[key][1].ttl = None =>
                        lastGet'[1].result = ToJson(written[key][1].value)]_vars

\* the entry stored under key has an expiry that lies in the past
Stale(key) ==
    /\ localStorage[RawKey(key)] # None
    /\ localStorage[RawKey(key)][1].kind = "object"
    /\ localStorage[RawKey(key)][1].expiry # None
    /\ localStorage[RawKey(key)][1].expiry[1] < now

\* this step is a call of the cache on key, a clear(), or a write to the
\* key's store entry from outside the cache
TouchesKey(key) ==
    \/ CacheGet(key)
    \/ CacheRemove(key)
    \/ CacheClear
    \/ \E value \in Values, expiry \in Ttls : CacheSet(key, value, expiry)
    \/ \E text \in StoredTexts : StoreOverwritten(key, text)

\* C33: time passing leaves the store as it is; the entry of a key, expired or
\* not, changes only in a get, set or remove on that key or in a clear(), so a
\* get on one key never evicts the expired entry of another.
C33_LazyEviction ==
    /\ [][ClockTick => localStorage' = localStorage]_vars
    /\ [][\A key \in Keys :
             localStorage'[RawKey(key)] # localStorage[RawKey(key)] => TouchesKey(key)]_vars

\* a get has evicted the expired entry of one key while the expired entry of
\* another key is still in the store
C33_Witness ==
    \E key \in Keys, other \in Keys :
        /\ other # key
        /\ Stale(other)
        /\ TtlElapsed(key)
        /\ localStorage[RawKey(key)] = None
        /\ lastGet = Some([key |-> key, result |-> JsNull])

\* ------------------------------------------------------------------------
\* Claims about the shape of a throttle window
\* ------------------------------------------------------------------------

\* C40: at most one reset is pending; the flag is set exactly while it is
\* pending; the pending reset is due one window after the call that started
\* it, whatever was invoked since; an invocation made while the flag is set
\* leaves the reset and the flag alone; any two calls of func are at least a
\* window apart.
C40_WindowAnchored ==
    /\ [](/\ Len(thrTimers) <= 1
          /\ inThrottle <=> thrTimers # << >>
          /\ thrTimers # << >> =>
                 /\ Len(thrCalls) > 0
                 /\ Head(thrTimers) = thrCalls[Len(thrCalls)].at + ThrottleLimit
          /\ \A i \in 1 .. Len(thrCalls), j \in 1 .. Len(thrCalls) :
                 i < j => thrCalls[j].at - thrCalls[i].at >= ThrottleLimit)
    /\ [][(Throttled /\ inThrottle) =>
             UNCHANGED << thrTimers, inThrottle, thrCalls >>]_vars

\* one call at 0 and an invocation dropped at 1, with the reset of the call
\* still pending for 2
C40_Witness ==
    /\ clock = 1
    /\ thrInvokedAt = { 0, 1 }
    /\ Len(thrCalls) = 1
    /\ inThrottle
    /\ thrTimers = << ThrottleLimit >>

\* the retries are used up: the test of line 549 fails
Exhausted == reconnectAttempts = maxReconnectAttempts

C37_RetryKeepsUrl ==
    /\ [][\A s \in SocketIds :
             (TransportClose(s) /\ ~Exhausted) =>
                 /\ Len(timers') = Len(timers) + 1
                 /\ timers'[Len(timers')].url = sockets[s].url]_vars
    /\ [][\A s \in SocketIds :
             sockets'[s].readyState # "CLOSED" => sockets'[s].url = sockets[s].url]_vars
    /\ [][((\E url \in Urls : Connect(url)) \/ Tick) =>
             /\ Len(timers') = Len(timers)
             /\ \A i \in 1 .. Len(timers) : timers'[i].url = timers[i].url]_vars
    /\ [][(TimerFire /\ ~IsOpen) =>
             /\ sockets' = Append(sockets, NewSocket(Head(timers).url))
             /\ timers' = Tail(timers)]_vars

\* after connect() calls for both urls and one close, the retry has fired and
\* the newest connection is one to "wss://a" next to a live one to "wss://b"
C37_Witness ==
    /\ connectCalls = 2
    /\ onConnectCalls = 0
    /\ onDisconnectCalls = 1
    /\ timers = << >>
    /\ sockets = << ClosedSocket, NewSocket("wss://b"), NewSocket("wss://a") >>
    /\ connection = 3

\* ------------------------------------------------------------------------
\* Claims about a transport that is never established
\* ------------------------------------------------------------------------

\* the sockets of one connect() and all its retries fit into the model
Fits == 1 + maxReconnectAttempts <= MaxSockets

\* C35: after connect() is called once and no socket ever opens, there are
\* never more than 1 + maxReconnectAttempts sockets, and from some moment on
\* no retry is pending and no socket is live.
C35_RetriesEnd ==
    /\ [](Fits => Len(sockets) <= 1 + maxReconnectAttempts)
    /\ (Fits => [](connectCalls = 1 => <>[]Quiet))

\* every retry was used: the first socket and one per retry, all closed
C35_Witness ==
    /\ connectCalls = 1
    /\ disconnectCalls = 0
    /\ Len(sockets) = 1 + maxReconnectAttempts
    /\ onDisconnectCalls = Len(sockets)
    /\ Quiet

\* ------------------------------------------------------------------------
\* Claims about the end of a toast
\* ------------------------------------------------------------------------

\* C34: every toast that show created is out of its container at some later
\* moment, dismissed or not, and a toast that is out of its container stays
\* out of it.
C34_EveryToastRemoved ==
    /\ \A id \in 1 .. MaxToasts :
           [](Len(toasts) >= id => <>(Len(toasts) >= id /\ ~toasts[id].inDom))
    /\ [][\A id \in ToastIds : ~toasts[id].inDom => ~toasts'[id].inDom]_vars

\* a toast that was dismissed and removed, whose auto-hide callback ran
\* afterwards and whose second removal callback found it gone
C34_Witness ==
    \E id \in ToastIds :
        /\ toasts[id].dismissals = 1
        /\ toasts[id].hideCalls = 2
        /\ toasts[id].removals = 1
        /\ ~toasts[id].inDom
        /\ toastTimers = << >>
        /\ clock > toasts[id].removedAt[1]

\* ------------------------------------------------------------------------
\* Claims about a handler that throws
\* ------------------------------------------------------------------------

\* C38: when onMessage throws on a well-formed frame, the error is caught and
\* logged as a parse failure is, none leaves the onmessage handler, and the
\* connection, its sockets, reconnectAttempts, the timers and the hooks are
\* as before; the frames after it reach onMessage as ever.
C38_HandlerErrorAbsorbed ==
    /\ [][\A s \in SocketIds, raw \in Frames :
             ReceiveThrows(s, raw) =>
                 /\ logged' = Append(logged, [frame |-> Len(arrived'), error |-> HandlerError])
                 /\ delivered' = Append(delivered, JsonParse(raw).value)
                 /\ UNCHANGED << escaped, connection, sockets, reconnectAttempts,
                                 timers, hooks >>]_vars
    /\ [](escaped = 0)
    /\ [](delivered = ParsedInOrder(arrived))
    /\ [](\A i \in 1 .. Len(logged) :
             logged[i].error = SyntaxError <=> ~JsonParse(arrived[logged[i].frame]).ok)

\* onMessage threw on the first frame and the second frame reached it on the
\* same connection, which is still open
C38_Witness ==
    /\ logged = << [frame |-> 1, error |-> HandlerError] >>
    /\ Len(arrived) = 2
    /\ delivered = << JsonParse(arrived[1]).value, JsonParse(arrived[2]).value >>
    /\ Len(sockets) = 1
    /\ IsOpen

\* ------------------------------------------------------------------------
\* Claims about replacing and removing an entry
\* ------------------------------------------------------------------------

\* this step is a set(key, value, expiry), on a key with or without an entry
Sets(key, value, expiry) == CacheSet(key, value, expiry) \/ CacheSetAgain(key, value, expiry)

\* C39: a set leaves an entry with its own value and, when it is given no
\* time to live, without expiry, whatever the key held before; a get on a
\* key last set without a time to live returns that set's value
\* and leaves the store alone, whenever it is made and whatever the set
\* replaced; after remove the key holds nothing, a get on a key that holds
\* nothing returns absent, and a remove on it changes nothing in the store.
C39_SetReplacesRemoveForgets ==
    /\ [][\A key \in Keys, value \in Values, expiry \in Ttls :
             Sets(key, value, expiry) =>
                 /\ localStorage'[RawKey(key)] # None
                 /\ localStorage'[RawKey(key)][1].kind = "object"
                 /\ localStorage'[RawKey(key)][1].value = ToJson(value)
                 /\ expiry = None => localStorage'[RawKey(key)][1].expiry = None
                 /\ OnlyTouches({RawKey(key)})]_vars
    /\ [][\A key \in Keys :
             (CacheGet(key) /\ written[key] # None /\ written[key][1].ttl = None) =>
                 /\ lastGet' = Some([key |-> key, result |-> ToJson(written[key][1].value)])
                 /\ localStorage' = localStorage]_vars
    /\ [][\A key \in Keys :
             /\ CacheRemove(key) => localStorage'[RawKey(key)] = None
             /\ (CacheRemove(key) /\ localStorage[RawKey(key)] = None) =>
                    localStorage' = localStorage
             /\ (CacheGet(key) /\ localStorage[RawKey(key)] = None) =>
                    lastGet' = Some([key |-> key, result |-> JsNull])]_vars

\* set(k, v1, 2), then set(k, 'dark') with v1 another value, and a get(k)
\* after the first set's time to live has passed that returned 'dark'
C39_Witness ==
    \E key \in Keys :
        /\ replaced[key] # None
        /\ replaced[key][1].ttl = Some(2)
        /\ replaced[key][1].value # JsString("dark")
        /\ written[key] # None
        /\ written[key][1].ttl = None
        /\ written[key][1].value = JsString("dark")
        /\ now > replaced[key][1].at + 2
        /\ lastGet = Some([key |-> key, result |-> JsString("dark")])
        /\ localStorage[RawKey(key)] # None

====
